---- MODULE Spec2Model ----
(***************************************************************************)
(* BW-MetaBase daily import (docker/etl/bi_daily_import.py): SharePointETL *)
(* downloads the configured workbooks and replaces one PostgreSQL table    *)
(* per sheet.  The model follows the call structure of the script:         *)
(*   run_daily_import -> download_file -> import_excel_to_postgres ->      *)
(*   import_multi_sheet_excel | import_single_sheet_excel ->               *)
(*   import_dataframe_to_db.                                               *)
(* Text is a sequence of one-character strings; the store is the committed *)
(* state of the database plus the working copy of the open transaction.    *)
(***************************************************************************)
EXTENDS Integers, Sequences, FiniteSets, TLC

\* ------------------------------------------------------------------ bounds
MaxLabelLen == 2
MaxCols == 2
MaxRows == 2
MaxSheets == 3
MaxTime == 2

\* ------------------------------------------------------------ characters
LowerLetters ==
  <<"a","b","c","d","e","f","g","h","i","j","k","l","m",
    "n","o","p","q","r","s","t","u","v","w","x","y","z">>
UpperLetters ==
  <<"A","B","C","D","E","F","G","H","I","J","K","L","M",
    "N","O","P","Q","R","S","T","U","V","W","X","Y","Z">>
DigitChars == {"0","1","2","3","4","5","6","7","8","9"}
DigitSeq == <<"0","1","2","3","4","5","6","7","8","9">>

Range(s) == {s[i] : i \in DOMAIN s}

LowerSet == Range(LowerLetters)
UpperSet == Range(UpperLetters)

\* the class [a-zA-Z0-9] of the sheet-name pattern
AlnumChars == LowerSet \cup UpperSet \cup DigitChars

\* the class [a-zA-Z0-9_] of the column pattern
WordChars == AlnumChars \cup {"_"}

IsWordChar(c) == c \in WordChars

IsAlnumChar(c) == c \in AlnumChars

\* the lower-case letter of every upper-case letter
LowerOf ==
  [c \in UpperSet |-> LowerLetters[CHOOSE i \in DOMAIN UpperLetters : UpperLetters[i] = c]]

\* str.lower() on one character
LowerChar(c) == IF c \in UpperSet THEN LowerOf[c] ELSE c

LowerStr(s) == [i \in DOMAIN s |-> LowerChar(s[i])]

\* str(n) for a natural number
RECURSIVE NatStr(_)
NatStr(n) ==
  IF n < 10 THEN <<DigitSeq[n + 1]>>
  ELSE NatStr(n \div 10) \o <<DigitSeq[(n % 10) + 1]>>

\* --------------------------------------------------- identifier cleaning
\* re.sub(r'[^a-zA-Z0-9_]', '_', col_str)
ReplaceNonWord(s) == [i \in DOMAIN s |-> IF IsWordChar(s[i]) THEN s[i] ELSE "_"]

\* re.sub(r'^[0-9]', 'col_\\g<0>', cleaned)
PrefixDigit(s) ==
  IF Len(s) > 0 /\ s[1] \in DigitChars THEN <<"c","o","l","_">> \o s ELSE s

\* re.sub(r'_+', '_', cleaned)
RECURSIVE CollapseUnderscores(_)
CollapseUnderscores(s) ==
  IF Len(s) < 2 THEN s
  ELSE IF s[1] = "_" /\ s[2] = "_" THEN CollapseUnderscores(Tail(s))
  ELSE <<s[1]>> \o CollapseUnderscores(Tail(s))

RECURSIVE StripLeft(_)
StripLeft(s) ==
  IF Len(s) > 0 /\ s[1] = "_" THEN StripLeft(Tail(s)) ELSE s

RECURSIVE StripRight(_)
StripRight(s) ==
  IF Len(s) > 0 /\ s[Len(s)] = "_" THEN StripRight(SubSeq(s, 1, Len(s) - 1)) ELSE s

\* cleaned.strip('_')
StripUnderscores(s) == StripRight(StripLeft(s))

\* the literal list of line 288
ReservedWords ==
  { <<"u","s","e","r">>, <<"o","r","d","e","r">>, <<"g","r","o","u","p">>,
    <<"t","a","b","l","e">>, <<"i","n","d","e","x">> }

\* lines 282-285: regex substitutions, strip and lower of one label
CleanLabel(col_str) ==
  LowerStr(StripUnderscores(CollapseUnderscores(PrefixDigit(ReplaceNonWord(col_str)))))

\* f'column_{len(cleaned_columns)}'
FallbackName(n) == <<"c","o","l","u","m","n","_">> \o NatStr(n)

\* the broken variant: the reserved words are let through
CleanOneNoReserved(col_str, n) ==
  LET cleaned == CleanLabel(col_str)
  IN  IF cleaned = <<>> THEN FallbackName(n) ELSE cleaned

\* lines 280-289: one iteration of the loop; n is len(cleaned_columns)
CleanOne(col_str, n) ==
  LET cleaned == CleanLabel(col_str)
  IN  IF cleaned = <<>> \/ cleaned \in ReservedWords THEN FallbackName(n) ELSE cleaned

\* lines 277-291: the whole loop over df.columns
RECURSIVE CleanColumns(_)
CleanColumns(cols) ==
  IF cols = <<>> THEN <<>>
  ELSE LET init == CleanColumns(SubSeq(cols, 1, Len(cols) - 1))
       IN  Append(init, CleanOne(cols[Len(cols)], Len(init)))


\* ------------------------------------------------------------ data frames
\* A cell is [k, v]: k is its kind, v a number standing for its content.
NaN == [k |-> "nan", v |-> 0]
NaT == [k |-> "nat", v |-> 0]
None == [k |-> "none", v |-> 0]
Val(n) == [k |-> "val", v |-> n]
Stamp(t) == [k |-> "datetime", v |-> t]
Text(n) == [k |-> "text", v |-> n]

\* the text cell that holds the three letters NaT
TextNaT == Text(0)

\* the column name of line 296
TS_COL == <<"i","m","p","o","r","t","_","t","i","m","e","s","t","a","m","p">>

\* datetime.now() returns one of these
Times == 1..MaxTime

\* lines 262 and 265: NaT and NaN become None
ReplaceMissingCell(c) == IF c.k \in {"nat", "nan"} THEN None ELSE c

ReplaceMissing(d) ==
  [d EXCEPT !.rows = [i \in DOMAIN d.rows |->
                        [j \in DOMAIN d.rows[i] |-> ReplaceMissingCell(d.rows[i][j])]]]

\* df.empty: no rows or no columns
DfEmpty(d) == Len(d.rows) = 0 \/ Len(d.columns) = 0

\* the broken variant: the time is read again for every row
SetTimestampColumnPerRow(d, t) ==
  LET now(i) == ((t + i) % MaxTime) + 1
  IN  IF TS_COL \in Range(d.columns)
      THEN [d EXCEPT !.rows = [i \in DOMAIN d.rows |->
                                 [j \in DOMAIN d.rows[i] |->
                                    IF d.columns[j] = TS_COL THEN Stamp(now(i))
                                    ELSE d.rows[i][j]]]]
      ELSE [columns |-> Append(d.columns, TS_COL),
            rows |-> [i \in DOMAIN d.rows |-> Append(d.rows[i], Stamp(now(i)))]]

\* line 296, df['import_timestamp'] = value: a column of that name is overwritten,
\* otherwise the column is appended
SetTimestampColumn(d, t) ==
  IF TS_COL \in Range(d.columns)
  THEN [d EXCEPT !.rows = [i \in DOMAIN d.rows |->
                             [j \in DOMAIN d.rows[i] |->
                                IF d.columns[j] = TS_COL THEN Stamp(t) ELSE d.rows[i][j]]]]
  ELSE [columns |-> Append(d.columns, TS_COL),
        rows |-> [i \in DOMAIN d.rows |-> Append(d.rows[i], Stamp(t))]]

\* lines 276-296: df.columns = cleaned_columns, then the timestamp column
PrepareFrame(d, t) ==
  SetTimestampColumn([d EXCEPT !.columns = CleanColumns(d.columns)], t)

\* lines 309-314: the column definitions of CREATE TABLE
ColumnDefs(cols) ==
  [j \in DOMAIN cols |->
     [name |-> cols[j], type |-> IF cols[j] = TS_COL THEN "TIMESTAMP" ELSE "TEXT"]]

\* line 325: pd.isna(value)
IsNa(c) == c.k \in {"nan", "nat", "none"}

\* line 325: str(value) == 'NaT'
StrIsNaT(c) == c.k = "nat" \/ c = TextNaT

\* lines 323-328: NaT and NaN to None for SQL NULL
CleanRow(row) ==
  [j \in DOMAIN row |-> IF IsNa(row[j]) \/ StrIsNaT(row[j]) THEN None ELSE row[j]]

\* --------------------------------------------------------------- the store
\* A store is the set of the tables that exist: [name, cols, rows], one per name.
EmptyStore == {}

TableExists(store, name) == \E t \in store : t.name = name

TableOf(store, name) == CHOOSE t \in store : t.name = name

\* DROP TABLE IF EXISTS
DropTable(store, name) == {t \in store : t.name # name}

\* CREATE TABLE with the column definitions of lines 309-314
CreateTable(store, name, cols) ==
  store \cup {[name |-> name, cols |-> ColumnDefs(cols), rows |-> << >>]}

\* the broken variant: the row is written twice
InsertRowTwice(store, name, row) ==
  {IF t.name = name THEN [t EXCEPT !.rows = Append(Append(@, row), row)] ELSE t : t \in store}

\* INSERT INTO name VALUES (...)
InsertRow(store, name, row) ==
  {IF t.name = name THEN [t EXCEPT !.rows = Append(@, row)] ELSE t : t \in store}

\* PostgreSQL rejects a CREATE TABLE that names a column twice or whose unquoted
\* column name starts with a digit
CreateRejected(cols) ==
  \/ \E i, j \in DOMAIN cols : i < j /\ cols[i] = cols[j]
  \/ \E i \in DOMAIN cols : cols[i] # << >> /\ cols[i][1] \in DigitChars

\* ------------------------------------------------------------ configuration
\* self.target_files, lines 36-49
target_files ==
  << [filename |-> "BI Dimensions.xlsx", table_name |-> "bi_dimensions",
      import_type |-> "multi_sheet"],
     [filename |-> "BI At Scale Import.xlsx", table_name |-> "bi_at_scale_import",
      import_type |-> "single_sheet"] >>

NumFiles == Len(target_files)

\* a binding of the same shape for the workbook "Dimensions" of the worked example
ExampleBinding ==
  [filename |-> "Dimensions.xlsx", table_name |-> "dimensions",
   import_type |-> "multi_sheet"]

\* the other cleaning: the sheet name goes through the cleaning of the column labels
CleanSheetNameAsColumn(sheet_name) == CleanOne(sheet_name, 0)

\* line 196: re.sub(r'[^a-zA-Z0-9]', '_', sheet_name.lower())
CleanSheetName(sheet_name) ==
  [i \in DOMAIN sheet_name |->
     IF IsAlnumChar(LowerChar(sheet_name[i])) THEN LowerChar(sheet_name[i]) ELSE "_"]

\* line 197: f"{file_info['table_name']}_{clean_sheet_name}"
SheetTableName(file_info, sheet_name) ==
  [base |-> file_info.table_name, sheet |-> CleanSheetName(sheet_name), fanout |-> TRUE]

\* line 229: table_name = file_info['table_name']
FileTableName(file_info) ==
  [base |-> file_info.table_name, sheet |-> << >>, fanout |-> FALSE]

\* ---------------------------------------------------------- statement texts
\* The text of a statement is the sequence of the pieces the f-string puts together,
\* each with where it comes from: the code, the configuration, a sheet name, a column
\* label or a row value. A statement is its text and its bound parameters.
Code(s) == [src |-> "code", s |-> s]
FromConfig(s) == [src |-> "config", s |-> s]
FromSheet(s) == [src |-> "sheet", s |-> s]
FromColumn(s) == [src |-> "column", s |-> s]
FromValue(v) == [src |-> "value", s |-> v]

\* {table_name} in a statement: the configured base name alone (line 229) or
\* f"{file_info['table_name']}_{clean_sheet_name}" (line 197)
TableText(name) ==
  IF name.fanout
  THEN << FromConfig(name.base), Code("_"), FromSheet(name.sheet) >>
  ELSE << FromConfig(name.base) >>

\* line 301: f"DROP TABLE IF EXISTS {table_name}"
DropSql(name) ==
  [text |-> << Code("DROP TABLE IF EXISTS ") >> \o TableText(name), params |-> << >>]

\* lines 306-315: f"CREATE TABLE {table_name} (\n", then f"    {col} TIMESTAMP" or
\* f"    {col} TEXT" for every column, joined with ",\n", then "\n)"
CreateSql(name, cols) ==
  [text |-> << Code("CREATE TABLE ") >> \o TableText(name) \o << Code(" (") >>
              \o [k \in 1..(2 * Len(cols)) |->
                    IF k % 2 = 1
                    THEN FromColumn(cols[(k + 1) \div 2])
                    ELSE Code(ColumnDefs(cols)[k \div 2].type)]
              \o << Code(")") >>,
   params |-> << >>]

\* the broken variant: the values of the row are written into the text
InsertSqlInline(name, clean_row) ==
  [text |-> << Code("INSERT INTO ") >> \o TableText(name) \o << Code(" VALUES (") >>
              \o [j \in DOMAIN clean_row |-> FromValue(clean_row[j])]
              \o << Code(")") >>,
   params |-> << >>]

\* lines 330-332: placeholders = ', '.join(['%s'] * len(clean_row)),
\* f"INSERT INTO {table_name} VALUES ({placeholders})", executed with tuple(clean_row)
InsertSql(name, clean_row) ==
  [text |-> << Code("INSERT INTO ") >> \o TableText(name) \o << Code(" VALUES (") >>
              \o [j \in DOMAIN clean_row |-> Code("%s")]
              \o << Code(")") >>,
   params |-> clean_row]

\* ------------------------------------------------------- workbook contents
\* sheet names a workbook may hold: two that differ only in punctuation, one other
SheetNames == { <<"A"," ","b">>, <<"a","_","b">>, <<"P">> }

\* sheet_names of a workbook: distinct names, in stored order
SheetNameLists ==
  UNION { { s \in [1..n -> SheetNames] : \A i, j \in 1..n : i # j => s[i] # s[j] }
          : n \in 0..MaxSheets }

\* header rows a sheet may hold: a clean pair, and a pair that cleans to one name
HeaderChoices ==
  { << <<"A"," ","b">>, <<"2","x">> >>,
    << <<"a">>, <<"A">> >> }

\* the data rows of a sheet with n rows: the second cell of every row is missing
SheetRows(n, ncols) ==
  [i \in 1..n |-> [j \in 1..ncols |-> IF j = 2 THEN NaN ELSE Val(i)]]

SheetFrame(header, n) == [columns |-> header, rows |-> SheetRows(n, Len(header))]

NoFrame == [columns |-> << >>, rows |-> << >>]

\* A stored sheet is the sequence of its rows; a row is [labels, cells]: what its
\* cells give when the row is taken as the header, and when it is taken as data.
MetaRow(ncols) ==
  [labels |-> [j \in 1..ncols |-> <<"m">>], cells |-> [j \in 1..ncols |-> Val(0)]]

HeaderRow(header) ==
  [labels |-> header, cells |-> [j \in DOMAIN header |-> Val(0)]]

DataRow(cells) ==
  [labels |-> [j \in DOMAIN cells |-> <<"d">>], cells |-> cells]

\* the sheet that holds `meta` rows of metadata, then the header and the rows of d
RawSheet(d, meta) ==
  [i \in 1..meta |-> MetaRow(Len(d.columns))]
    \o << HeaderRow(d.columns) >>
    \o [i \in DOMAIN d.rows |-> DataRow(d.rows[i])]

\* pd.read_excel(..., skiprows=n, header=0): the first n rows are dropped, the next
\* row gives the column labels, the rows after it are the data
ReadExcel(sheet, skiprows) ==
  IF Len(sheet) <= skiprows
  THEN NoFrame
  ELSE [columns |-> sheet[skiprows + 1].labels,
        rows |-> [i \in 1..(Len(sheet) - skiprows - 1) |-> sheet[skiprows + 1 + i].cells]]

\* line 239: skiprows=3
SKIPROWS == 3

\* line 234: if 'BI At Scale Import' in file_info['filename']; of the configured
\* file names only this one holds the words
IsAtScaleImport(file_info) == file_info.filename = "BI At Scale Import.xlsx"

\* the broken variant: every sheet is read from its first row
SheetSkipRowsNone(file_info) == 0

\* lines 202, 239 and 243: the rows skipped when a sheet of the file is read
SheetSkipRows(file_info) ==
  IF file_info.import_type = "single_sheet" /\ IsAtScaleImport(file_info)
  THEN SKIPROWS
  ELSE 0

\* the frames a sheet may hold
SheetFrames == { SheetFrame(header, n) : header \in HeaderChoices, n \in 0..MaxRows }

\* the sheets a download of the multi-sheet file, and of the single-sheet file, may hold
AnySheets == { RawSheet(d, 0) : d \in SheetFrames }
AnySingle == { RawSheet(d, SKIPROWS) : d \in SheetFrames }

\* The contents of the files on the drive: the sheet names of the multi-sheet file,
\* its sheets in the same order, and the first sheet of the single-sheet file. When
\* known is FALSE the contents are not fixed in advance and a read delivers any.
UnknownWorkbook ==
  [known |-> FALSE, names |-> << >>, sheets |-> << >>, single |-> << >>]

KnownWorkbook(names, sheets, single) ==
  [known |-> TRUE, names |-> names, sheets |-> sheets, single |-> single]
NoTable == [base |-> "", sheet |-> << >>, fanout |-> FALSE]


\* ------------------------------------------------------------------- state
VARIABLES
  pc,              \* position of the process in the script
  runs,            \* how many times the job has been started
  access_token,    \* self.access_token is set
  fetch,           \* how the last document retrieval ended, "none" before the first
  unlinked,        \* how the last os.unlink ended, "none" when none followed the fetch
  drive_id,        \* self.drive_id is set
  file_idx,        \* index into target_files of the loop of line 363
  success_count,   \* success_count of run_daily_import
  temp_files,      \* temporary files on disk
  sheet_names,     \* sheet_names of import_multi_sheet_excel
  sheet_idx,       \* index into sheet_names of the loop of line 193
  sheet_success,   \* success_count of import_multi_sheet_excel
  table_name,      \* table_name of the current import
  df,              \* the data frame of the current import
  row_idx,         \* index of the next row of the loop of line 321
  conn,            \* "closed" or "open": the connection of the current import
  txn,             \* the store as the open transaction sees it
  committed,       \* the committed store
  leaked,          \* connections left open by a failed import, not yet reclaimed
  db_ret,          \* return value of import_dataframe_to_db
  file_ret,        \* return value of import_excel_to_postgres
  result,          \* return value of run_daily_import: "none", "True" or "False"
  exit_code,       \* exit status of the process, -1 while it has none
  log,             \* the outcome lines printed by the run, in order
  labels_in,       \* column cleaning alone: the labels of df.columns taken up so far
  labels_out,      \* column cleaning alone: cleaned_columns
  workbook,        \* the contents of the files on the drive
  prev             \* the committed store as the run before this one left it

vars ==
  << pc, runs, access_token, fetch, unlinked, drive_id, file_idx, success_count, temp_files,
     sheet_names, sheet_idx, sheet_success, table_name, df, row_idx, conn, txn,
     committed, leaked, db_ret, file_ret, result, exit_code, log,
     labels_in, labels_out, workbook, prev >>

srcVars == << workbook, prev >>
sanVars == << labels_in, labels_out >>
runVars ==
  << runs, access_token, fetch, unlinked, drive_id, file_idx, success_count, result,
     exit_code >>
fileVars == << sheet_names, sheet_idx, sheet_success, file_ret >>
dbVars == << table_name, df, row_idx, conn, txn, committed, leaked, db_ret >>

\* file_info of import_excel_to_postgres: the file of the loop of line 363, or the
\* binding of the worked example when the import is called outside the loop
file_info ==
  IF file_idx \in DOMAIN target_files THEN target_files[file_idx] ELSE ExampleBinding

\* line 189: what excel_file.sheet_names may return
WorkbookNames == IF workbook.known THEN {workbook.names} ELSE SheetNameLists

\* line 202: what the read of sheet i may find
WorkbookSheet(i) == IF workbook.known THEN {workbook.sheets[i]} ELSE AnySheets

\* lines 239 and 243: what the read of the single-sheet file may find
WorkbookSingle == IF workbook.known THEN {workbook.single} ELSE AnySingle


\* ------------------------------------------------- import_dataframe_to_db
\* autocommit left on: every statement is committed as it is executed
TxnWriteAutocommit(new) == txn' = new /\ committed' = new

\* lines 268-274 and 298: the connection is opened without autocommit, so the
\* statements of the cursor change only the open transaction
TxnWrite(new) == txn' = new /\ UNCHANGED committed

\* the broken variant: the exception is not caught and leaves every function; the
\* interpreter ends the process with a traceback
DbRaisePropagate ==
  /\ pc' = "raised"
  /\ db_ret' = FALSE
  /\ leaked' = 0
  /\ conn' = "closed"
  /\ txn' = EmptyStore
  /\ UNCHANGED committed

\* the broken variant: the failure path leaves the destination table dropped
DbRaiseDropsTable ==
  /\ pc' = "db_return"
  /\ db_ret' = FALSE
  /\ leaked' = leaked
  /\ conn' = "closed"
  /\ txn' = EmptyStore
  /\ committed' = DropTable(committed, table_name)

\* the broken variant: the failure path commits what the transaction did so far
DbRaiseCommit ==
  /\ pc' = "db_return"
  /\ db_ret' = FALSE
  /\ leaked' = leaked
  /\ conn' = "closed"
  /\ txn' = EmptyStore
  /\ committed' = txn

\* lines 341-343: any exception ends the call with False; the connection, when
\* one is open, is neither rolled back nor closed here
DbRaise ==
  /\ pc' = "db_return"
  /\ db_ret' = FALSE
  /\ leaked' = leaked + (IF conn = "open" THEN 1 ELSE 0)
  /\ conn' = "closed"
  /\ txn' = EmptyStore
  /\ UNCHANGED committed

\* lines 260-274: replace the missing values, then psycopg2.connect
DbConnect ==
  /\ pc = "db_connect"
  /\ df' = ReplaceMissing(df)
  /\ \/ /\ conn' = "open"
        /\ txn' = committed
        /\ pc' = "db_prepare"
        /\ UNCHANGED << committed, leaked, db_ret >>
     \/ DbRaise
  /\ UNCHANGED << table_name, row_idx, log >>
  /\ UNCHANGED runVars /\ UNCHANGED fileVars /\ UNCHANGED sanVars /\ UNCHANGED srcVars
  /\ UNCHANGED temp_files

\* lines 276-298: clean the column names, stamp the frame, open the cursor
DbPrepare ==
  /\ pc = "db_prepare"
  /\ \E t \in Times : df' = PrepareFrame(df, t)
  /\ pc' = "db_drop"
  /\ UNCHANGED << table_name, row_idx, conn, txn, committed, leaked, db_ret, log >>
  /\ UNCHANGED runVars /\ UNCHANGED fileVars /\ UNCHANGED sanVars /\ UNCHANGED srcVars
  /\ UNCHANGED temp_files

\* lines 300-303: DROP TABLE IF EXISTS
DbDrop ==
  /\ pc = "db_drop"
  /\ \/ /\ TxnWrite(DropTable(txn, table_name))
        /\ pc' = "db_create"
        /\ UNCHANGED << conn, leaked, db_ret >>
     \/ DbRaise
  /\ UNCHANGED << table_name, df, row_idx, log >>
  /\ UNCHANGED runVars /\ UNCHANGED fileVars /\ UNCHANGED sanVars /\ UNCHANGED srcVars
  /\ UNCHANGED temp_files

\* lines 305-318: CREATE TABLE
DbCreate ==
  /\ pc = "db_create"
  /\ \/ /\ ~CreateRejected(df.columns)
        /\ ~TableExists(txn, table_name)
        /\ TxnWrite(CreateTable(txn, table_name, df.columns))
        /\ pc' = IF Len(df.rows) = 0 THEN "db_commit" ELSE "db_insert"
        /\ row_idx' = 1
        /\ UNCHANGED << conn, leaked, db_ret >>
     \/ /\ DbRaise
        /\ UNCHANGED row_idx
  /\ UNCHANGED << table_name, df, log >>
  /\ UNCHANGED runVars /\ UNCHANGED fileVars /\ UNCHANGED sanVars /\ UNCHANGED srcVars
  /\ UNCHANGED temp_files

\* lines 320-332: one iteration of the insert loop
DbInsert ==
  /\ pc = "db_insert"
  /\ row_idx <= Len(df.rows)
  /\ \/ /\ TxnWrite(InsertRow(txn, table_name,
                              InsertSql(table_name, CleanRow(df.rows[row_idx])).params))
        /\ row_idx' = row_idx + 1
        /\ pc' = IF row_idx = Len(df.rows) THEN "db_commit" ELSE "db_insert"
        /\ UNCHANGED << conn, leaked, db_ret >>
     \/ /\ DbRaise
        /\ UNCHANGED row_idx
  /\ UNCHANGED << table_name, df, log >>
  /\ UNCHANGED runVars /\ UNCHANGED fileVars /\ UNCHANGED sanVars /\ UNCHANGED srcVars
  /\ UNCHANGED temp_files

\* the broken variant: the commit adds the rows of the transaction to the rows the
\* committed table of the same name already has
DbCommitAppend ==
  /\ pc = "db_commit"
  /\ \/ /\ committed' =
             { IF TableExists(committed, t.name)
               THEN [t EXCEPT !.rows = TableOf(committed, t.name).rows \o @]
               ELSE t : t \in txn }
        /\ txn' = EmptyStore
        /\ conn' = "closed"
        /\ db_ret' = TRUE
        /\ pc' = "db_return"
        /\ UNCHANGED leaked
     \/ DbRaise
  /\ UNCHANGED << table_name, df, row_idx, log >>
  /\ UNCHANGED runVars /\ UNCHANGED fileVars /\ UNCHANGED sanVars /\ UNCHANGED srcVars
  /\ UNCHANGED temp_files

\* lines 334-339: commit, close, return True
DbCommit ==
  /\ pc = "db_commit"
  /\ \/ /\ committed' = txn
        /\ txn' = EmptyStore
        /\ conn' = "closed"
        /\ db_ret' = TRUE
        /\ pc' = "db_return"
        /\ UNCHANGED leaked
     \/ DbRaise
  /\ UNCHANGED << table_name, df, row_idx, log >>
  /\ UNCHANGED runVars /\ UNCHANGED fileVars /\ UNCHANGED sanVars /\ UNCHANGED srcVars
  /\ UNCHANGED temp_files

\* a connection left open by lines 341-343 is closed when its object is reclaimed;
\* the server then rolls its transaction back
Finalize ==
  /\ leaked > 0
  /\ leaked' = 0
  /\ UNCHANGED << pc, table_name, df, row_idx, conn, txn, committed, db_ret, log >>
  /\ UNCHANGED runVars /\ UNCHANGED fileVars /\ UNCHANGED sanVars /\ UNCHANGED srcVars
  /\ UNCHANGED temp_files


\* the locals of import_dataframe_to_db are gone once its caller has its result
DbLocalsGone ==
  /\ df' = NoFrame
  /\ table_name' = NoTable
  /\ row_idx' = 0

\* ------------------------------------------------ import_multi_sheet_excel
\* the broken variant: the table of an empty sheet is dropped
EmptySkipDropsTable(name) == committed' = DropTable(committed, name)

\* lines 204-206 and 246-248: an empty frame is reported and left; no statement is
\* sent to the store for its table
EmptySkip(name) == UNCHANGED committed

\* the broken variant: the importer reports a file it could not read as imported
ImportRaiseTrue ==
  /\ file_ret' = TRUE
  /\ pc' = "file_return"

\* lines 222-224 and 253-255: an exception of the importer outside the loop over the
\* sheets (pd.ExcelFile, pd.read_excel cannot parse the file) ends it with False
ImportRaise ==
  /\ file_ret' = FALSE
  /\ pc' = "file_return"

\* the broken variant: an empty sheet is imported like any other
SkipSheetNever(d) == FALSE

\* lines 204-206: if df.empty: continue
SkipSheet(d) == DfEmpty(d)

\* the broken variant: the loop is left at the first sheet that fails
NextSheetAfterFailureBreak == Len(sheet_names) + 1

\* lines 212-217: a failed sheet is reported and the loop goes on with the next one
NextSheetAfterFailure == sheet_idx + 1

\* the broken variant: the file succeeds only when every sheet was imported
MultiSucceededAll == sheet_success = Len(sheet_names)

\* line 220: return success_count > 0
MultiSucceeded == sheet_success > 0

\* lines 186-192 and 222-224: open the workbook and list its sheets
MultiOpen ==
  /\ pc = "multi_open"
  /\ \/ \E names \in WorkbookNames :
          /\ sheet_names' = names
          /\ sheet_idx' = 1
          /\ sheet_success' = 0
          /\ pc' = "multi_loop"
          /\ UNCHANGED file_ret
     \/ /\ ImportRaise
        /\ UNCHANGED << sheet_names, sheet_idx, sheet_success >>
  /\ UNCHANGED log
  /\ UNCHANGED runVars /\ UNCHANGED dbVars /\ UNCHANGED sanVars /\ UNCHANGED srcVars
  /\ UNCHANGED temp_files

\* lines 193-206 and 215-217: name the table, read the sheet, skip it when empty
MultiSheet ==
  /\ pc = "multi_loop"
  /\ sheet_idx <= Len(sheet_names)
  /\ table_name' = SheetTableName(file_info, sheet_names[sheet_idx])
  /\ \/ /\ log' = log \o << <<"sheet", sheet_idx>>, <<"sheet_error", sheet_idx>> >>
        /\ sheet_idx' = NextSheetAfterFailure
        /\ UNCHANGED << pc, df, committed >>
     \/ \E sheet \in WorkbookSheet(sheet_idx) :
          /\ df' = ReadExcel(sheet, SheetSkipRows(file_info))
          /\ IF SkipSheet(df')
             THEN /\ log' = log \o << <<"sheet", sheet_idx>>, <<"sheet_empty", sheet_idx>> >>
                  /\ sheet_idx' = sheet_idx + 1
                  /\ EmptySkip(table_name')
                  /\ UNCHANGED pc
             ELSE /\ log' = Append(log, <<"sheet", sheet_idx>>)
                  /\ pc' = "db_connect"
                  /\ UNCHANGED << sheet_idx, committed >>
  /\ UNCHANGED << sheet_names, sheet_success, file_ret >>
  /\ UNCHANGED << row_idx, conn, txn, leaked, db_ret >>
  /\ UNCHANGED runVars /\ UNCHANGED sanVars /\ UNCHANGED srcVars
  /\ UNCHANGED temp_files

\* lines 209-213: count the sheet when its import returned True
MultiAfterDb ==
  /\ pc = "db_return"
  /\ file_info.import_type = "multi_sheet"
  /\ IF db_ret
     THEN /\ sheet_success' = sheet_success + 1
          /\ log' = Append(log, <<"sheet_ok", sheet_idx>>)
          /\ sheet_idx' = sheet_idx + 1
     ELSE /\ UNCHANGED sheet_success
          /\ log' = Append(log, <<"sheet_failed", sheet_idx>>)
          /\ sheet_idx' = NextSheetAfterFailure
  /\ pc' = "multi_loop"
  /\ DbLocalsGone
  /\ UNCHANGED << sheet_names, file_ret >>
  /\ UNCHANGED << conn, txn, committed, leaked, db_ret >>
  /\ UNCHANGED runVars /\ UNCHANGED sanVars /\ UNCHANGED srcVars
  /\ UNCHANGED temp_files

\* lines 219-220: return success_count > 0
MultiDone ==
  /\ pc = "multi_loop"
  /\ sheet_idx > Len(sheet_names)
  /\ file_ret' = MultiSucceeded
  /\ pc' = "file_return"
  /\ UNCHANGED << sheet_names, sheet_idx, sheet_success, log >>
  /\ UNCHANGED runVars /\ UNCHANGED dbVars /\ UNCHANGED sanVars /\ UNCHANGED srcVars
  /\ UNCHANGED temp_files

\* ----------------------------------------------- import_single_sheet_excel
\* lines 228-248 and 253-255: read the first sheet; an empty frame returns False
SingleRead ==
  /\ pc = "single_read"
  /\ \/ /\ ImportRaise
        /\ UNCHANGED << df, table_name, log, committed >>
     \/ \E sheet \in WorkbookSingle :
          /\ df' = ReadExcel(sheet, SheetSkipRows(file_info))
          /\ IF DfEmpty(df')
             THEN /\ log' = Append(log, <<"file_empty", file_idx>>)
                  /\ file_ret' = FALSE
                  /\ pc' = "file_return"
                  /\ EmptySkip(FileTableName(file_info))
                  /\ UNCHANGED table_name
             ELSE /\ table_name' = FileTableName(file_info)
                  /\ pc' = "db_connect"
                  /\ UNCHANGED << file_ret, log, committed >>
  /\ UNCHANGED << sheet_names, sheet_idx, sheet_success >>
  /\ UNCHANGED << row_idx, conn, txn, leaked, db_ret >>
  /\ UNCHANGED runVars /\ UNCHANGED sanVars /\ UNCHANGED srcVars
  /\ UNCHANGED temp_files

\* line 251: return self.import_dataframe_to_db(df, table_name)
SingleAfterDb ==
  /\ pc = "db_return"
  /\ file_info.import_type = "single_sheet"
  /\ file_ret' = db_ret
  /\ pc' = "file_return"
  /\ DbLocalsGone
  /\ UNCHANGED << sheet_names, sheet_idx, sheet_success, log >>
  /\ UNCHANGED << conn, txn, committed, leaked, db_ret >>
  /\ UNCHANGED runVars /\ UNCHANGED sanVars /\ UNCHANGED srcVars
  /\ UNCHANGED temp_files


\* -------------------------------------------------------- run_daily_import
\* the broken variant: a failed download ends the loop
NextFileAfterFailedDownloadAbort == NumFiles + 1

\* lines 382-383: a failed download is reported and the loop goes on with the next file
NextFileAfterFailedDownload == file_idx + 1

\* the broken variant: one imported file is enough
RunSucceededAny == success_count > 0

\* line 387: success_count == len(self.target_files)
RunSucceeded == success_count = NumFiles

\* the broken variant: the failure is printed and the run goes on to the files
SetupFailedGoesOn ==
  /\ result' = result
  /\ pc' = "run_loop"

\* lines 353-354 and 358-359: print the failure and return False
SetupFailed ==
  /\ result' = "False"
  /\ pc' = "run_return"

\* lines 351-354 (get_access_token, lines 67-89)
GetToken ==
  /\ pc = "start"
  /\ \/ /\ access_token' = TRUE
        /\ pc' = "drive"
        /\ UNCHANGED result
     \/ /\ SetupFailed
        /\ UNCHANGED access_token
  /\ UNCHANGED << fetch, unlinked, runs, drive_id, file_idx, success_count, exit_code, log >>
  /\ UNCHANGED fileVars /\ UNCHANGED dbVars /\ UNCHANGED sanVars /\ UNCHANGED srcVars
  /\ UNCHANGED temp_files

\* lines 356-362 (get_drive_id, lines 91-118)
GetDrive ==
  /\ pc = "drive"
  /\ \/ /\ drive_id' = TRUE
        /\ pc' = "run_loop"
        /\ file_idx' = 1
        /\ success_count' = 0
        /\ UNCHANGED result
     \/ /\ SetupFailed
        /\ UNCHANGED << drive_id, file_idx, success_count >>
  /\ UNCHANGED << fetch, unlinked, runs, access_token, exit_code, log >>
  /\ UNCHANGED fileVars /\ UNCHANGED dbVars /\ UNCHANGED sanVars /\ UNCHANGED srcVars
  /\ UNCHANGED temp_files

\* the ways the document retrieval of download_file may end: the file is saved
\* (line 152), the metadata request is not answered with 200 (line 161), the answer
\* holds no download URL (line 158), the content request is not answered with 200
\* (line 155), an exception is raised (line 165)
FetchOutcomes == {"ok", "metadata_status", "no_url", "content_status", "exception"}

\* the broken variant: the answer to the content request is saved whatever its status
DownloadFileIgnoresStatus(outcome) ==
  IF outcome \in {"ok", "content_status"} THEN "path" ELSE "None"

\* lines 120-166: download_file returns the path of the temporary file, or None
DownloadFile(outcome) == IF outcome = "ok" THEN "path" ELSE "None"

\* lines 363-368 and 382-383: temp_file_path = self.download_file(file_config)
Download ==
  /\ pc = "run_loop"
  /\ file_idx <= NumFiles
  /\ \E outcome \in FetchOutcomes :
       /\ fetch' = outcome
       /\ unlinked' = "none"
       /\ IF DownloadFile(outcome) # "None"
          THEN /\ temp_files' = temp_files + 1
               /\ log' = Append(log, <<"processing", file_idx>>)
               /\ pc' = "import_file"
               /\ UNCHANGED file_idx
          ELSE /\ log' = log \o << <<"processing", file_idx>>, <<"download_failed", file_idx>> >>
               /\ file_idx' = NextFileAfterFailedDownload
               /\ UNCHANGED << pc, temp_files >>
  /\ UNCHANGED << runs, access_token, drive_id, success_count, result, exit_code >>
  /\ UNCHANGED fileVars /\ UNCHANGED dbVars /\ UNCHANGED sanVars /\ UNCHANGED srcVars

\* lines 168-182: import_excel_to_postgres chooses the importer by import_type
ImportExcel ==
  /\ pc = "import_file"
  /\ pc' = IF file_info.import_type = "multi_sheet" THEN "multi_open" ELSE "single_read"
  /\ UNCHANGED log
  /\ UNCHANGED runVars /\ UNCHANGED fileVars /\ UNCHANGED dbVars /\ UNCHANGED sanVars /\ UNCHANGED srcVars
  /\ UNCHANGED temp_files

\* lines 377-381: os.unlink(temp_file_path) removes the temporary file, or raises
\* and only a warning is printed
Unlink ==
  \/ /\ temp_files' = temp_files - 1
     /\ unlinked' = "removed"
  \/ /\ UNCHANGED temp_files
     /\ unlinked' = "warning"

\* the broken variant: the temporary file is removed only after an import that
\* returned True
CleanUpAfterSuccess ==
  IF file_ret THEN Unlink ELSE UNCHANGED << temp_files, unlinked >>

\* lines 376-381: the clean-up follows the import whatever it returned
CleanUp == Unlink

\* lines 370-381: count the file when its import returned True, then unlink the
\* temporary file; a failed unlink is only a warning
FileReturn ==
  /\ pc = "file_return"
  /\ success_count' = IF file_ret THEN success_count + 1 ELSE success_count
  /\ log' = Append(log, << IF file_ret THEN "file_ok" ELSE "file_failed", file_idx >>)
  /\ CleanUp
  /\ file_idx' = file_idx + 1
  /\ pc' = "run_loop"
  /\ sheet_names' = << >> /\ sheet_idx' = 0 /\ sheet_success' = 0 /\ file_ret' = FALSE
  /\ DbLocalsGone
  /\ UNCHANGED << conn, txn, committed, leaked, db_ret >>
  /\ UNCHANGED << fetch, runs, access_token, drive_id, result, exit_code >>
  /\ UNCHANGED sanVars /\ UNCHANGED srcVars

\* lines 385-392: the run succeeded when every file did
RunSummary ==
  /\ pc = "run_loop"
  /\ file_idx > NumFiles
  /\ result' = IF RunSucceeded THEN "True" ELSE "False"
  /\ pc' = "run_return"
  /\ fetch' = "none" /\ unlinked' = "none"
  /\ UNCHANGED << runs, access_token, drive_id, file_idx, success_count, exit_code, log >>
  /\ UNCHANGED fileVars /\ UNCHANGED dbVars /\ UNCHANGED sanVars /\ UNCHANGED srcVars
  /\ UNCHANGED temp_files

\* lines 394-400: main exits with 1 unless the run returned True; the exit of the
\* process closes whatever connection is still open
MainExit ==
  /\ pc = "run_return"
  /\ exit_code' = IF result = "True" THEN 0 ELSE 1
  /\ pc' = "exit"
  /\ leaked' = 0
  /\ UNCHANGED << fetch, unlinked, runs, access_token, drive_id, file_idx, success_count,
                  result, log >>
  /\ UNCHANGED fileVars /\ UNCHANGED sanVars /\ UNCHANGED srcVars
  /\ UNCHANGED << table_name, df, row_idx, conn, txn, committed, db_ret >>
  /\ UNCHANGED temp_files

\* -------------------------------------------------------------- the process
Running == pc \notin {"exit", "killed", "check"}

\* the process is terminated from outside at any point of the run: its memory is
\* gone, its connections break and the server rolls their transactions back
Interrupt ==
  /\ Running
  /\ pc' = "killed"
  /\ access_token' = FALSE /\ drive_id' = FALSE /\ fetch' = "none" /\ unlinked' = "none"
  /\ file_idx' = 0 /\ success_count' = 0
  /\ sheet_names' = << >> /\ sheet_idx' = 0 /\ sheet_success' = 0
  /\ DbLocalsGone
  /\ conn' = "closed" /\ txn' = EmptyStore /\ leaked' = 0
  /\ db_ret' = FALSE /\ file_ret' = FALSE
  /\ UNCHANGED << runs, result, exit_code, log, committed, temp_files >>
  /\ UNCHANGED sanVars /\ UNCHANGED srcVars

Init ==
  /\ pc = "start"
  /\ runs = 1
  /\ access_token = FALSE /\ drive_id = FALSE /\ fetch = "none" /\ unlinked = "none"
  /\ file_idx = 0 /\ success_count = 0
  /\ temp_files = 0
  /\ sheet_names = << >> /\ sheet_idx = 0 /\ sheet_success = 0
  /\ table_name = NoTable /\ df = NoFrame /\ row_idx = 0
  /\ conn = "closed" /\ txn = EmptyStore /\ committed = EmptyStore /\ leaked = 0
  /\ db_ret = FALSE /\ file_ret = FALSE
  /\ result = "none" /\ exit_code = -1
  /\ log = << >>
  /\ labels_in = << >> /\ labels_out = << >>
  /\ workbook = UnknownWorkbook
  /\ prev = EmptyStore

Next ==
  \/ GetToken \/ GetDrive \/ Download \/ ImportExcel
  \/ MultiOpen \/ MultiSheet \/ MultiAfterDb \/ MultiDone
  \/ SingleRead \/ SingleAfterDb
  \/ DbConnect \/ DbPrepare \/ DbDrop \/ DbCreate \/ DbInsert \/ DbCommit
  \/ Finalize \/ FileReturn \/ RunSummary \/ MainExit
  \/ Interrupt

Spec == Init /\ [][Next]_vars


\* ------------------------------------------- two runs on unchanged files
\* a header row that cleans to distinct names
CleanHeader == << <<"A"," ","b">>, <<"2","x">> >>

\* the files of both runs: two sheets, the first with one row and the second with
\* two; the two sheet names give one table name, or two
TwiceNameLists ==
  { << <<"A"," ","b">>, <<"a","_","b">> >>,
    << <<"A"," ","b">>, <<"P">> >> }

TwiceWorkbooks ==
  { KnownWorkbook(names,
                  [i \in DOMAIN names |-> RawSheet(SheetFrame(CleanHeader, i), 0)],
                  RawSheet(SheetFrame(CleanHeader, 1), SKIPROWS))
    : names \in TwiceNameLists }

InitTwice ==
  /\ pc = "start"
  /\ runs = 1
  /\ access_token = FALSE /\ drive_id = FALSE /\ fetch = "none" /\ unlinked = "none"
  /\ file_idx = 0 /\ success_count = 0
  /\ temp_files = 0
  /\ sheet_names = << >> /\ sheet_idx = 0 /\ sheet_success = 0
  /\ table_name = NoTable /\ df = NoFrame /\ row_idx = 0
  /\ conn = "closed" /\ txn = EmptyStore /\ committed = EmptyStore /\ leaked = 0
  /\ db_ret = FALSE /\ file_ret = FALSE
  /\ result = "none" /\ exit_code = -1
  /\ log = << >>
  /\ labels_in = << >> /\ labels_out = << >>
  /\ workbook \in TwiceWorkbooks
  /\ prev = EmptyStore

\* the scheduler starts the job a second time after the first process has exited:
\* a new process, the same files on the drive, the store as the first run left it;
\* its output follows that of the first run
Restart ==
  /\ pc = "exit"
  /\ runs = 1
  /\ runs' = runs + 1
  /\ prev' = committed
  /\ pc' = "start"
  /\ access_token' = FALSE /\ drive_id' = FALSE /\ fetch' = "none" /\ unlinked' = "none"
  /\ file_idx' = 0 /\ success_count' = 0
  /\ result' = "none" /\ exit_code' = -1
  /\ sheet_names' = << >> /\ sheet_idx' = 0 /\ sheet_success' = 0
  /\ DbLocalsGone
  /\ conn' = "closed" /\ txn' = EmptyStore /\ leaked' = 0
  /\ db_ret' = FALSE /\ file_ret' = FALSE
  /\ log' = Append(log, <<"run", runs'>>)
  /\ UNCHANGED << committed, temp_files >>
  /\ UNCHANGED sanVars

RunAgain == Restart /\ UNCHANGED workbook

\* both runs go on to their end
NextTwice ==
  \/ GetToken \/ GetDrive \/ Download \/ ImportExcel
  \/ MultiOpen \/ MultiSheet \/ MultiAfterDb \/ MultiDone
  \/ SingleRead \/ SingleAfterDb
  \/ DbConnect \/ DbPrepare \/ DbDrop \/ DbCreate \/ DbInsert \/ DbCommit
  \/ Finalize \/ FileReturn \/ RunSummary \/ MainExit
  \/ RunAgain

SpecTwice == InitTwice /\ [][NextTwice]_vars

\* ------------------------------------- a later run on files that were emptied
\* the files of the first run: sheets "A b" with one row and "P" with two, and the
\* single-sheet file with one row
LaterNames == << <<"A"," ","b">>, <<"P">> >>

FirstWorkbook ==
  KnownWorkbook(LaterNames,
                [i \in DOMAIN LaterNames |-> RawSheet(SheetFrame(CleanHeader, i), 0)],
                RawSheet(SheetFrame(CleanHeader, 1), SKIPROWS))

\* a sheet that holds its header row and no data
HeaderOnly(meta) == RawSheet(SheetFrame(CleanHeader, 0), meta)

\* the files of the second run: the second sheet and the single-sheet file hold only
\* their header; or the first sheet holds nothing and the single-sheet file ends
\* before its header row
LaterWorkbooks ==
  { KnownWorkbook(LaterNames, << FirstWorkbook.sheets[1], HeaderOnly(0) >>,
                  HeaderOnly(SKIPROWS)),
    KnownWorkbook(LaterNames, << << >>, FirstWorkbook.sheets[2] >>,
                  [i \in 1..SKIPROWS |-> MetaRow(Len(CleanHeader))]) }

InitLater ==
  /\ pc = "start"
  /\ runs = 1
  /\ access_token = FALSE /\ drive_id = FALSE /\ fetch = "none" /\ unlinked = "none"
  /\ file_idx = 0 /\ success_count = 0
  /\ temp_files = 0
  /\ sheet_names = << >> /\ sheet_idx = 0 /\ sheet_success = 0
  /\ table_name = NoTable /\ df = NoFrame /\ row_idx = 0
  /\ conn = "closed" /\ txn = EmptyStore /\ committed = EmptyStore /\ leaked = 0
  /\ db_ret = FALSE /\ file_ret = FALSE
  /\ result = "none" /\ exit_code = -1
  /\ log = << >>
  /\ labels_in = << >> /\ labels_out = << >>
  /\ workbook = FirstWorkbook
  /\ prev = EmptyStore

\* the job is started a second time after the files on the drive were replaced
RunLater == Restart /\ workbook' \in LaterWorkbooks

NextLater ==
  \/ GetToken \/ GetDrive \/ Download \/ ImportExcel
  \/ MultiOpen \/ MultiSheet \/ MultiAfterDb \/ MultiDone
  \/ SingleRead \/ SingleAfterDb
  \/ DbConnect \/ DbPrepare \/ DbDrop \/ DbCreate \/ DbInsert \/ DbCommit
  \/ Finalize \/ FileReturn \/ RunSummary \/ MainExit
  \/ RunLater

SpecLater == InitLater /\ [][NextLater]_vars

\* ------------------------------------------- the import of one known file
\* a label that cleans to the name of the timestamp column, and one that holds
\* characters with a meaning in SQL
TimestampLabel ==
  <<"I","m","p","o","r","t"," ","T","i","m","e","s","t","a","m","p">>
QuoteLabel == <<"x","'",";">>

\* the header rows of the known files
FileHeaders ==
  { << <<"A"," ","b">>, <<"2","x">> >>,
    << <<"a">>, <<"A">> >>,
    << TimestampLabel, <<"b">> >>,
    << QuoteLabel >> }

\* the cells of the known files: a value, an empty cell, a missing time, the text NaT
FileCells == { Val(1), NaN, NaT, TextNaT }

\* the frames of the known files: every header with up to MaxRows rows of these cells
FileFrames ==
  UNION { UNION { { [columns |-> header, rows |-> rows]
                    : rows \in [1..n -> [DOMAIN header -> FileCells]] }
                  : n \in 0..MaxRows }
          : header \in FileHeaders }

\* the first sheet of the single-sheet file: SKIPROWS rows of metadata above the
\* header, or a sheet that ends before its header row
FileSingles ==
  { RawSheet(d, SKIPROWS) : d \in FileFrames }
    \cup { [i \in 1..n |-> MetaRow(1)] : n \in 0..SKIPROWS }

\* the multi-sheet file: one or two sheets, the header in the first row
FileNameLists == { << <<"P">> >>, << QuoteLabel, <<"P">> >> }

FileWorkbooks ==
  { KnownWorkbook(<< >>, << >>, single) : single \in FileSingles }
    \cup { KnownWorkbook(names, [i \in DOMAIN names |-> sheet], << >>)
           : names \in FileNameLists, sheet \in AnySheets }

\* import_excel_to_postgres is called for one downloaded file of known content
InitFile ==
  /\ pc = "import_file"
  /\ runs = 1
  /\ access_token = TRUE /\ drive_id = TRUE /\ fetch = "ok" /\ unlinked = "none"
  /\ workbook \in FileWorkbooks
  /\ file_idx \in { f \in 1..NumFiles :
                     target_files[f].import_type = "multi_sheet" <=> workbook.names # << >> }
  /\ success_count = 0
  /\ temp_files = 1
  /\ sheet_names = << >> /\ sheet_idx = 0 /\ sheet_success = 0
  /\ table_name = NoTable /\ df = NoFrame /\ row_idx = 0
  /\ conn = "closed" /\ txn = EmptyStore /\ committed = EmptyStore /\ leaked = 0
  /\ db_ret = FALSE /\ file_ret = FALSE
  /\ result = "none" /\ exit_code = -1
  /\ log = << >>
  /\ labels_in = << >> /\ labels_out = << >>
  /\ prev = EmptyStore

NextFile ==
  \/ ImportExcel
  \/ MultiOpen \/ MultiSheet \/ MultiAfterDb \/ MultiDone
  \/ SingleRead \/ SingleAfterDb
  \/ DbConnect \/ DbPrepare \/ DbDrop \/ DbCreate \/ DbInsert \/ DbCommit
  \/ Finalize

SpecFile == InitFile /\ [][NextFile]_vars

\* --------------------------------------------------- the worked example
\* workbook "Dimensions": sheets Region, Empty, Product; Region has the columns
\* "Region Name" and "2024 Target" and 2 rows
RegionName == <<"R","e","g","i","o","n">>
EmptyName == <<"E","m","p","t","y">>
ProductName == <<"P","r","o","d","u","c","t">>
RegionHeader ==
  << <<"R","e","g","i","o","n"," ","N","a","m","e">>,
     <<"2","0","2","4"," ","T","a","r","g","e","t">> >>

ExampleCells == { Val(1), Val(2), NaN }

RegionFrames ==
  { [columns |-> RegionHeader, rows |-> << r1, r2 >>]
    : r1 \in [1..2 -> ExampleCells], r2 \in [1..2 -> ExampleCells] }

\* the sheet Empty holds nothing, or a header row and no data
EmptySheets == { << >>, RawSheet(SheetFrame(CleanHeader, 0), 0) }

ProductFrames == { SheetFrame(CleanHeader, n) : n \in 1..MaxRows }

ExampleWorkbooks ==
  { KnownWorkbook(<< RegionName, EmptyName, ProductName >>,
                  << RawSheet(region, 0), empty, RawSheet(product, 0) >>,
                  << >>)
    : region \in RegionFrames, empty \in EmptySheets, product \in ProductFrames }

\* import_excel_to_postgres is called with the workbook and the binding of the example
InitExample ==
  /\ pc = "import_file"
  /\ runs = 1
  /\ access_token = TRUE /\ drive_id = TRUE /\ fetch = "ok" /\ unlinked = "none"
  /\ workbook \in ExampleWorkbooks
  /\ file_idx = 0
  /\ success_count = 0
  /\ temp_files = 1
  /\ sheet_names = << >> /\ sheet_idx = 0 /\ sheet_success = 0
  /\ table_name = NoTable /\ df = NoFrame /\ row_idx = 0
  /\ conn = "closed" /\ txn = EmptyStore /\ committed = EmptyStore /\ leaked = 0
  /\ db_ret = FALSE /\ file_ret = FALSE
  /\ result = "none" /\ exit_code = -1
  /\ log = << >>
  /\ labels_in = << >> /\ labels_out = << >>
  /\ prev = EmptyStore

NextExample ==
  \/ ImportExcel
  \/ MultiOpen \/ MultiSheet \/ MultiAfterDb \/ MultiDone
  \/ DbConnect \/ DbPrepare \/ DbDrop \/ DbCreate \/ DbInsert \/ DbCommit
  \/ Finalize

SpecExample == InitExample /\ [][NextExample]_vars

\* --------------------------------------------------- the column sanitizer
\* one character of each class the patterns tell apart: lower, upper, digit, other
SanAlphabet == {"a", "B", "1", " "}

RECURSIVE StringsUpTo(_)
StringsUpTo(n) ==
  IF n = 0 THEN { << >> }
  ELSE LET shorter == StringsUpTo(n - 1)
       IN  shorter \cup { Append(t, c) : t \in {x \in shorter : Len(x) = n - 1},
                                         c \in SanAlphabet }

\* labels with the reserved words in several cases, an underscore before a digit,
\* a fallback name written out, and a character outside ASCII
ProbeLabels ==
  { <<"U","s","e","r">>, <<"o","r","d","e","r">>, <<" ","G","R","O","U","P">>,
    <<"t","a","b","l","e","_">>, <<"I","n","d","e","x">>,
    <<"_","2","x">>, <<"c","o","l","u","m","n","_","1">>, <<"é">> }

Labels == StringsUpTo(MaxLabelLen) \cup ProbeLabels

InitSan ==
  /\ pc = "check"
  /\ runs = 1
  /\ access_token = FALSE /\ drive_id = FALSE /\ fetch = "none" /\ unlinked = "none"
  /\ file_idx = 0 /\ success_count = 0
  /\ temp_files = 0
  /\ sheet_names = << >> /\ sheet_idx = 0 /\ sheet_success = 0
  /\ table_name = NoTable /\ df = NoFrame /\ row_idx = 0
  /\ conn = "closed" /\ txn = EmptyStore /\ committed = EmptyStore /\ leaked = 0
  /\ db_ret = FALSE /\ file_ret = FALSE
  /\ result = "none" /\ exit_code = -1
  /\ log = << >>
  /\ labels_in = << >>
  /\ labels_out = << >>
  /\ workbook = UnknownWorkbook
  /\ prev = EmptyStore

\* lines 278-291: one iteration of the loop, on the next label of df.columns
Sanitize ==
  /\ pc = "check"
  /\ Len(labels_in) < MaxCols
  /\ \E col \in Labels :
       /\ labels_in' = Append(labels_in, col)
       /\ labels_out' = Append(labels_out, CleanOne(col, Len(labels_out)))
  /\ UNCHANGED << pc, temp_files, log >>
  /\ UNCHANGED runVars /\ UNCHANGED fileVars /\ UNCHANGED dbVars /\ UNCHANGED srcVars

NextSan == Sanitize

SpecSan == InitSan /\ [][NextSan]_vars

Sanitized == labels_out # << >>

\* ------------------------------------------- the table name of one sheet
\* one character of each class the two patterns tell apart
NameAlphabet == {"a", "B", "1", " ", "_"}

RECURSIVE NamesUpTo(_)
NamesUpTo(n) ==
  IF n = 0 THEN { << >> }
  ELSE LET shorter == NamesUpTo(n - 1)
       IN  shorter \cup { Append(t, c) : t \in {x \in shorter : Len(x) = n - 1},
                                         c \in NameAlphabet }

\* the sheet names tried: all short ones, and the labels of the column cleaning; a
\* sheet name has at least one character
SheetLabels == (NamesUpTo(MaxLabelLen + 1) \cup ProbeLabels) \ { << >> }

InitName ==
  /\ pc = "name"
  /\ runs = 1
  /\ access_token = TRUE /\ drive_id = TRUE /\ fetch = "ok" /\ unlinked = "none"
  /\ file_idx = 1 /\ success_count = 0
  /\ temp_files = 1
  /\ sheet_names = << >> /\ sheet_idx = 0 /\ sheet_success = 0
  /\ table_name = NoTable /\ df = NoFrame /\ row_idx = 0
  /\ conn = "closed" /\ txn = EmptyStore /\ committed = EmptyStore /\ leaked = 0
  /\ db_ret = FALSE /\ file_ret = FALSE
  /\ result = "none" /\ exit_code = -1
  /\ log = << >>
  /\ labels_in = << >> /\ labels_out = << >>
  /\ workbook = UnknownWorkbook
  /\ prev = EmptyStore

\* lines 195-197: the table name of a sheet, for a workbook with this one sheet
NameSheet ==
  /\ pc = "name"
  /\ \E sheet_name \in SheetLabels :
       /\ sheet_names' = << sheet_name >>
       /\ sheet_idx' = 1
       /\ table_name' = SheetTableName(file_info, sheet_name)
  /\ UNCHANGED << pc, sheet_success, file_ret, temp_files, log >>
  /\ UNCHANGED << df, row_idx, conn, txn, committed, leaked, db_ret >>
  /\ UNCHANGED runVars /\ UNCHANGED sanVars /\ UNCHANGED srcVars

NextName == NameSheet

SpecName == InitName /\ [][NextName]_vars

\* C4: the cleaned names of one column list are pairwise distinct.
C4_PairwiseDistinct ==
  Sanitized =>
    \A i, j \in DOMAIN labels_out : i # j => labels_out[i] # labels_out[j]

IdentifierChars == LowerSet \cup DigitChars \cup {"_"}

\* [a-z][a-z0-9_]*
IsIdentifier(t) ==
  /\ Len(t) > 0
  /\ t[1] \in LowerSet
  /\ \A i \in DOMAIN t : t[i] \in IdentifierChars

\* C5: every cleaned name matches [a-z][a-z0-9_]* or is column_{ordinal}; it never
\* starts with a digit.
C5_WellFormed ==
  Sanitized =>
    \A i \in DOMAIN labels_out :
      /\ IsIdentifier(labels_out[i]) \/ labels_out[i] = FallbackName(i - 1)
      /\ labels_out[i] # << >> /\ labels_out[i][1] \notin DigitChars

\* C6: a cleaned name is never empty and never a reserved word; a label that is a
\* reserved word in any letter case, or that cleans to nothing or to a reserved word,
\* gets column_{ordinal}, the ordinal being the position of the column.
C6_NeverReserved ==
  Sanitized =>
    \A i \in DOMAIN labels_out :
      /\ labels_out[i] # << >>
      /\ labels_out[i] \notin ReservedWords
      /\ LowerStr(labels_in[i]) \in ReservedWords => labels_out[i] = FallbackName(i - 1)
      /\ LET cleaned == CleanLabel(labels_in[i])
         IN  (cleaned = << >> \/ cleaned \in ReservedWords)
               => labels_out[i] = FallbackName(i - 1)

\* a reserved word in mixed case, as the second column, became column_1
C6_Witness ==
  /\ Sanitized
  /\ Len(labels_in) = 2
  /\ labels_in[2] = <<"U","s","e","r">>
  /\ labels_out[2] = <<"c","o","l","u","m","n","_","1">>


\* ------------------------------------------------------- claims on the run
Logged(tag, n) == \E i \in DOMAIN log : log[i] = <<tag, n>>

\* the numbers logged under a tag, and their positions in the log
LoggedAt(tag) == {i \in DOMAIN log : log[i][1] = tag}
LoggedNumbers(tag) == {log[i][2] : i \in LoggedAt(tag)}

\* the table a complete load of frame d leaves under a name
LoadedTable(name, d) ==
  [name |-> name, cols |-> ColumnDefs(d.columns),
   rows |-> [i \in DOMAIN d.rows |-> CleanRow(d.rows[i])]]

\* C1: the committed store changes only by the commit of an import, and then the
\* destination table changes from what it was to the complete load of the frame, every
\* other table staying as it was; no step commits a dropped, empty or partly filled table.
C1_AtomicReplace ==
  [][committed' # committed =>
       /\ pc = "db_commit"
       /\ committed' = DropTable(committed, table_name) \cup {LoadedTable(table_name, df)}]_vars

\* an import failed at its second insert and the table of an earlier load is still
\* committed, complete
C1_Witness ==
  /\ pc = "db_return" /\ ~db_ret
  /\ row_idx = 2 /\ Len(df.rows) = 2
  /\ TableExists(committed, table_name)
  /\ Len(TableOf(committed, table_name).rows) = 1

RunEnded == pc \in {"run_return", "exit"} /\ drive_id

FileOutcomes == {"file_ok", "file_failed", "download_failed"}

\* C2: the files are taken up in configured order, none twice; once the loop has
\* ended every file was taken up and has exactly one outcome; when the download of
\* file 1 failed and file 2 was imported, the count is 1 of 2 and the table of file 2
\* is committed with its rows.
C2_EveryFileOnce ==
  /\ \A i, j \in LoggedAt("processing") : i < j => log[i][2] < log[j][2]
  /\ RunEnded =>
       /\ LoggedNumbers("processing") = 1..NumFiles
       /\ \A f \in 1..NumFiles :
            Cardinality({i \in DOMAIN log : log[i][2] = f /\ log[i][1] \in FileOutcomes}) = 1
       /\ (Logged("download_failed", 1) /\ Logged("file_ok", 2)) =>
            /\ success_count = 1
            /\ result = "False"
            /\ \E t \in committed :
                 t.name = FileTableName(target_files[2]) /\ Len(t.rows) > 0

\* the download of file 1 failed, file 2 was imported, the process has exited
C2_Witness ==
  /\ pc = "exit"
  /\ Logged("download_failed", 1)
  /\ Logged("file_ok", 2)
  /\ exit_code = 1

\* C3: the run returns True exactly when every configured file succeeded, and the
\* process exits with 0 exactly when the run returned True, with 1 otherwise.
C3_SuccessIffAll ==
  /\ pc \in {"run_return", "exit"} =>
       /\ result \in {"True", "False"}
       /\ result = "True" <=> (\A f \in 1..NumFiles : Logged("file_ok", f))
       /\ (result = "True" /\ drive_id) <=> (drive_id /\ success_count = NumFiles)
  /\ pc = "exit" =>
       /\ exit_code \in {0, 1}
       /\ exit_code = 0 <=> result = "True"

\* both files succeeded and the process exited with 0
C3_Witness ==
  /\ pc = "exit"
  /\ Logged("file_ok", 1)
  /\ Logged("file_ok", 2)
  /\ result = "True" /\ exit_code = 0


\* --------------------------------------------- claims on the fan-out import
\* the process is inside the import of a multi-sheet file, or at its return
InFanOut ==
  /\ pc \in {"multi_loop", "db_connect", "db_prepare", "db_drop", "db_create",
             "db_insert", "db_commit", "db_return", "file_return"}
  /\ file_info.import_type = "multi_sheet"

FanOutReturned == pc = "file_return" /\ file_info.import_type = "multi_sheet"

SheetOutcomes == {"sheet_ok", "sheet_failed", "sheet_empty", "sheet_error"}

\* the committed tables of the file being imported
FanOutTables == {t \in committed : t.name.fanout /\ t.name.base = file_info.table_name}

\* C7: the sheets are taken up in stored order, none twice; at the return every sheet
\* of the workbook was taken up and has exactly one outcome, whatever the outcome of
\* the sheets before it; the table of every sheet reported imported is still committed.
C7_EverySheetOnce ==
  InFanOut =>
    /\ \A i, j \in LoggedAt("sheet") : i < j => log[i][2] < log[j][2]
    /\ \A n \in LoggedNumbers("sheet_ok") :
         TableExists(committed, SheetTableName(file_info, sheet_names[n]))
    /\ FanOutReturned =>
         /\ LoggedNumbers("sheet") = 1..Len(sheet_names)
         /\ \A n \in 1..Len(sheet_names) :
              Cardinality({i \in DOMAIN log : log[i][2] = n /\ log[i][1] \in SheetOutcomes}) = 1

\* three sheets: the first could not be read, the second failed in the store, the
\* third was imported
C7_Witness ==
  /\ FanOutReturned
  /\ Len(sheet_names) = 3
  /\ Logged("sheet_error", 1)
  /\ Logged("sheet_failed", 2)
  /\ Logged("sheet_ok", 3)
  /\ Cardinality(FanOutTables) = 1

\* C8: the fan-out import returns True exactly when at least one sheet was
\* materialized and loaded, that is when the store holds a loaded table of the file.
C8_SucceededIffOne ==
  FanOutReturned =>
    /\ file_ret <=> (\E t \in FanOutTables : Len(t.rows) > 0)
    /\ file_ret <=> LoggedNumbers("sheet_ok") # {}

\* one sheet failed, one was imported: the file succeeded
C8_Witness ==
  /\ FanOutReturned
  /\ file_ret
  /\ Logged("sheet_failed", 1)
  /\ Logged("sheet_ok", 2)

C10_EmptyFileNotFailed ==
  \A f \in 1..NumFiles : Logged("file_empty", f) => ~Logged("file_failed", f)

\* ------------------------------------- claims on import_dataframe_to_db
\* import_dataframe_to_db has returned False without having created its table:
\* the frame is prepared and the insert loop was never entered
FailedBeforeInsert ==
  /\ pc = "db_return" /\ ~db_ret
  /\ row_idx = 0
  /\ TS_COL \in Range(df.columns)

\* C11 as stated: after a rejected CREATE TABLE the import has failed and no table of
\* the destination name is in the store, also when one existed before the import.
C11_LeftAbsent ==
  (FailedBeforeInsert /\ CreateRejected(df.columns))
    => ~TableExists(committed, table_name)

\* C11, amended: a CREATE TABLE that the store would reject is never executed with
\* success; a failed CREATE TABLE ends the import with False and leaves the committed
\* store as it was, so the destination is absent when it was absent and still the
\* complete table of the earlier load when it existed, never a table without rows;
\* the caller then reports the sheet or the file as failed.
C11_RejectedCreateKeepsStore ==
  [][/\ (pc = "db_create" /\ CreateRejected(df.columns)) => pc' \notin {"db_insert", "db_commit"}
     /\ (pc = "db_create" /\ pc' = "db_return") =>
          /\ ~db_ret'
          /\ committed' = committed
          /\ \A t \in committed' : t.name = table_name => Len(t.rows) > 0
     /\ (pc = "db_return" /\ ~db_ret /\ pc' \notin {"db_return", "killed"}) =>
          IF file_info.import_type = "multi_sheet"
          THEN /\ log' = Append(log, <<"sheet_failed", sheet_idx>>)
               /\ sheet_success' = sheet_success
          ELSE ~file_ret']_vars

\* the CREATE TABLE of a sheet with two columns of one name was rejected while the
\* table of an earlier sheet of the same table name is committed
C11_Witness ==
  /\ FailedBeforeInsert
  /\ CreateRejected(df.columns)
  /\ TableExists(committed, table_name)
  /\ Len(TableOf(committed, table_name).rows) > 0

\* ------------------------------------------ claims on the loaded rows
\* the sheet being imported from the known files, and the frame its read gives
SourceSheet ==
  IF file_info.import_type = "multi_sheet" THEN workbook.sheets[sheet_idx]
  ELSE workbook.single
SourceFrame == ReadExcel(SourceSheet, SheetSkipRows(file_info))

\* import_dataframe_to_db has just returned True for a sheet of the known files
JustLoaded == workbook.known /\ pc = "db_return" /\ db_ret
LoadedRows == TableOf(committed, table_name).rows

\* C12: the table holds one row per row of the sheet, and every cell that is missing
\* in the sheet (empty, NaN, NaT) is NULL in its row, not a text such as None or NaT.
C12_MissingIsNull ==
  JustLoaded =>
    /\ Len(LoadedRows) = Len(SourceFrame.rows)
    /\ \A i \in DOMAIN SourceFrame.rows : \A j \in DOMAIN SourceFrame.rows[i] :
         IsNa(SourceFrame.rows[i][j]) => LoadedRows[i][j] = None

\* C13: the rows passed to the store are the rows of the frame with NULL in place of
\* the missing cells and of no other cell; every other cell is stored with its own
\* content, not NULL.
C13_OnlyMissingIsNull ==
  JustLoaded =>
    \A i \in DOMAIN df.rows : \A j \in DOMAIN df.rows[i] :
      IF IsNa(df.rows[i][j])
      THEN LoadedRows[i][j] = None
      ELSE LoadedRows[i][j] = df.rows[i][j] /\ LoadedRows[i][j] # None

\* the values a table holds in its import_timestamp column
StampsOf(t) ==
  { t.rows[i][j] : i \in DOMAIN t.rows,
                   j \in { c \in DOMAIN t.cols : t.cols[c].name = TS_COL } }

\* the values a frame holds in its import_timestamp column
FrameStamps(d) ==
  { d.rows[i][j] : i \in DOMAIN d.rows,
                   j \in { c \in DOMAIN d.columns : d.columns[c] = TS_COL } }

\* C14: every committed table has an import_timestamp column, and all its rows hold
\* one value there, a time read once for the load: the first row and the last row
\* carry the same time however many rows were inserted; and while the rows are being
\* inserted the rows already in the table carry the time of the rows still to come.
C14_OneTimestampPerLoad ==
  /\ \A t \in committed :
       /\ \E c \in DOMAIN t.cols : t.cols[c].name = TS_COL
       /\ Cardinality(StampsOf(t)) = 1
       /\ \A s \in StampsOf(t) : s.k = "datetime" /\ s.v \in Times
       /\ \A c \in DOMAIN t.cols :
            t.cols[c].name = TS_COL => t.rows[1][c] = t.rows[Len(t.rows)][c]
  /\ (pc \in {"db_insert", "db_commit"} /\ TableExists(txn, table_name)) =>
       StampsOf(TableOf(txn, table_name)) \subseteq FrameStamps(df)
  /\ pc \in {"db_drop", "db_create", "db_insert", "db_commit"} =>
       Cardinality(FrameStamps(df)) = 1

\* a load of MaxRows rows is committed and its rows carry the later of the times
C14_Witness ==
  /\ JustLoaded
  /\ Len(LoadedRows) = MaxRows
  /\ StampsOf(TableOf(committed, table_name)) = { Stamp(MaxTime) }

\* C15: the table just loaded has one TEXT column per column of the sheet, named by
\* the cleaned label, in the order of the sheet, and after them one import_timestamp
\* column typed TIMESTAMP; the values of every row are in the order of the columns,
\* the value of sheet column j in table column j.
C15_ColumnsInOrder ==
  JustLoaded =>
    LET n == Len(SourceFrame.columns)
        t == TableOf(committed, table_name)
    IN  /\ Len(t.cols) = n + 1
        /\ \A j \in 1..n :
             /\ t.cols[j].name = CleanColumns(SourceFrame.columns)[j]
             /\ t.cols[j].type = "TEXT"
        /\ t.cols[n + 1] = [name |-> TS_COL, type |-> "TIMESTAMP"]
        /\ \A i \in DOMAIN t.rows :
             /\ Len(t.rows[i]) = n + 1
             /\ \A j \in 1..n : t.rows[i][j] = CleanRow(SourceFrame.rows[i])[j]

\* ------------------------------------------------ claims on the table name
Named == pc = "name" /\ sheet_names # << >>

\* what the cleaning of the column labels makes of the sheet name
SanitizedSheetName == CleanOne(sheet_names[1], sheet_idx - 1)

\* C16 as stated: the sheet part of the table name is what the cleaning of the column
\* labels (replace, col_ prefix, collapse, strip, lower case, fallback) makes of the
\* sheet name.
C16_NameIsSanitized ==
  Named => table_name.sheet = SanitizedSheetName

\* the steps of the column cleaning beyond replacing and lower-casing change nothing
NoFurtherStep(t) ==
  /\ t # << >>
  /\ t[1] \notin DigitChars
  /\ t[1] # "_" /\ t[Len(t)] # "_"
  /\ \A i \in 1..(Len(t) - 1) : ~(t[i] = "_" /\ t[i + 1] = "_")
  /\ t \notin ReservedWords

\* C16, amended: the table name is the base name of the file, an underscore, and the
\* sheet name in which every letter is lower-cased, every digit kept and every other
\* character replaced by one underscore, character by character and nothing else; it
\* is what the cleaning of the column labels gives exactly when the further steps of
\* that cleaning would change nothing.
C16_NameIsLowerReplaced ==
  Named =>
    LET name == sheet_names[1]
        out == table_name.sheet
    IN  /\ table_name.fanout /\ table_name.base = file_info.table_name
        /\ Len(out) = Len(name)
        /\ \A i \in DOMAIN name :
             out[i] = IF name[i] \in LowerSet \cup DigitChars THEN name[i]
                      ELSE IF name[i] \in UpperSet THEN LowerOf[name[i]]
                      ELSE "_"
        /\ out = SanitizedSheetName <=> NoFurtherStep(out)

\* the sheet "1 B" is named 1_b where the column cleaning gives col_1_b
C16_Witness ==
  /\ Named
  /\ sheet_names[1] = <<"1", " ", "B">>
  /\ table_name.sheet = <<"1", "_", "b">>
  /\ SanitizedSheetName = <<"c", "o", "l", "_", "1", "_", "b">>

\* ----------------------------------------------- claims on two runs
SecondRunEnded == runs = 2 /\ pc = "exit"

\* the output of the first run and of the second run
RunMark == CHOOSE i \in DOMAIN log : log[i] = <<"run", 2>>
FirstLog == SubSeq(log, 1, RunMark - 1)
SecondLog == SubSeq(log, RunMark + 1, Len(log))

\* two tables of one name with the same columns, the same number of rows and, in
\* every column but import_timestamp, the same values row by row
SameButTimestamp(t, u) ==
  /\ t.name = u.name
  /\ t.cols = u.cols
  /\ Len(t.rows) = Len(u.rows)
  /\ \A i \in DOMAIN t.rows : \A j \in DOMAIN t.cols :
       t.cols[j].name # TS_COL => t.rows[i][j] = u.rows[i][j]

\* no two sheets of the workbook derive one table name
DistinctTables ==
  \A i, j \in DOMAIN workbook.names :
    i # j => CleanSheetName(workbook.names[i]) # CleanSheetName(workbook.names[j])

\* C17: after the second run on the unchanged files the store holds the tables the
\* first run left, each with the same columns, the same number of rows (not the rows
\* of both runs) and the same values outside import_timestamp, whenever the second
\* run met the outcomes of the first, file by file and sheet by sheet; and when no two
\* sheets share a table name, every table the first run left is so after the second
\* run whatever the outcomes of the two runs were.
C17_Idempotent ==
  SecondRunEnded =>
    /\ FirstLog = SecondLog =>
         /\ \A t \in prev : \E u \in committed : SameButTimestamp(t, u)
         /\ \A u \in committed : \E t \in prev : SameButTimestamp(t, u)
    /\ DistinctTables =>
         \A t \in prev : \E u \in committed : SameButTimestamp(t, u)

\* both runs imported both files; the table of the sheet with two rows has two rows
\* after the second run, loaded at another time than in the first run
C17_Witness ==
  /\ SecondRunEnded
  /\ FirstLog = SecondLog
  /\ Logged("file_ok", 1) /\ Logged("file_ok", 2)
  /\ ~Logged("sheet_failed", 1) /\ ~Logged("sheet_failed", 2)
  /\ \E t \in prev : \E u \in committed :
       /\ SameButTimestamp(t, u)
       /\ Len(u.rows) = 2
       /\ StampsOf(t) # StampsOf(u)

\* --------------------------------------------- claims on the end of the run
InDb ==
  pc \in {"db_connect", "db_prepare", "db_drop", "db_create", "db_insert",
          "db_commit", "db_return"}

InFile ==
  InDb \/ pc \in {"import_file", "multi_open", "single_read", "multi_loop", "file_return"}

\* the statements import_dataframe_to_db has still to execute, at most
DbRank ==
  CASE pc = "db_connect" -> Len(df.rows) + 5
    [] pc = "db_prepare" -> Len(df.rows) + 4
    [] pc = "db_drop" -> Len(df.rows) + 3
    [] pc = "db_create" -> Len(df.rows) + 2
    [] pc = "db_insert" -> Len(df.rows) - row_idx + 2
    [] pc = "db_commit" -> 1
    [] OTHER -> 0

SheetSpan == MaxRows + 8

\* the same for the import of the file
FileRank ==
  CASE pc = "import_file" -> MaxSheets * SheetSpan + 3
    [] pc \in {"multi_open", "single_read"} -> MaxSheets * SheetSpan + 2
    [] pc = "multi_loop" -> (Len(sheet_names) + 1 - sheet_idx) * SheetSpan + 1
    [] InDb /\ file_info.import_type = "multi_sheet" ->
         (Len(sheet_names) - sheet_idx) * SheetSpan + 2 + DbRank
    [] InDb /\ file_info.import_type = "single_sheet" -> 1 + DbRank
    [] OTHER -> 0

FileSpan == MaxSheets * SheetSpan + 5

\* the same for the run: a number that every step of the process makes smaller
Rank ==
  CASE pc = "start" -> NumFiles * FileSpan + 4
    [] pc = "drive" -> NumFiles * FileSpan + 3
    [] pc = "run_loop" -> (NumFiles + 1 - file_idx) * FileSpan + 2
    [] InFile -> (NumFiles - file_idx) * FileSpan + 3 + FileRank
    [] pc = "run_return" -> 1
    [] OTHER -> 0

\* the process is at a statement from which it goes on, or it has ended
HasNextStep ==
  CASE pc \in {"start", "drive", "import_file", "multi_open", "single_read",
               "db_connect", "db_prepare", "db_drop", "db_create", "db_commit",
               "file_return", "run_return"} -> TRUE
    [] pc = "run_loop" -> file_idx \in 1..(NumFiles + 1)
    [] pc = "multi_loop" -> sheet_idx \in 1..(Len(sheet_names) + 1)
    [] pc = "db_insert" -> row_idx \in 1..Len(df.rows)
    [] pc = "db_return" -> file_info.import_type \in {"multi_sheet", "single_sheet"}
    [] pc \in {"exit", "killed"} -> TRUE
    [] OTHER -> FALSE

\* C19: whatever fails, the process is always at a statement from which it goes on
\* until it has ended, never outside every function with an exception; every step
\* brings the end of the run nearer, so the run ends; it ends with a result, True or
\* False; an import that failed for a sheet is followed by the loop over the sheets,
\* and a file that failed by the loop over the files, with the next file.
C19_AlwaysReturns ==
  /\ [](HasNextStep /\ Rank >= 0)
  /\ [](pc \in {"run_return", "exit"} => result \in {"True", "False"})
  /\ [](pc = "file_return" => file_ret \in BOOLEAN)
  /\ [][/\ Rank' < Rank \/ (Rank' = Rank /\ leaked' < leaked)
        /\ (pc = "db_return" /\ file_info.import_type = "multi_sheet"
              /\ pc' \notin {"db_return", "killed"})
             => pc' = "multi_loop" /\ file_idx' = file_idx
        /\ (pc = "multi_loop" /\ pc' \notin {"multi_loop", "killed"})
             => pc' \in {"db_connect", "file_return"}
        /\ (pc = "file_return" /\ pc' \notin {"file_return", "killed"})
             => pc' = "run_loop" /\ file_idx' = file_idx + 1
        /\ (pc = "run_loop" /\ pc' \notin {"run_loop", "killed"})
             => pc' \in {"import_file", "run_return"}]_vars

\* the first sheet could not be read, the second failed in the store, so the first
\* file failed; the second file failed too; the run returned False and the process
\* exited with 1
C19_Witness ==
  /\ pc = "exit"
  /\ Logged("sheet_error", 1) /\ Logged("sheet_failed", 2)
  /\ Logged("file_failed", 1) /\ Logged("file_failed", 2)
  /\ result = "False" /\ exit_code = 1

\* ------------------------------------------------ claims on the header row
\* a sheet of the known files has just been read into df
JustRead == workbook.known /\ pc = "db_connect"

\* df holds row h of the sheet as its header and the rows after row h, all of them
\* and in their order, as its data
HeaderAtRow(sheet, h) ==
  /\ Len(sheet) >= h
  /\ df.columns = sheet[h].labels
  /\ Len(df.rows) = Len(sheet) - h
  /\ \A i \in DOMAIN df.rows : df.rows[i] = sheet[h + i].cells

\* C18: the single-sheet file 'BI At Scale Import' is read with the first 3 rows
\* discarded, row 4 as the header and the rows from row 5 onward as the data, in their
\* order; every sheet of the multi-sheet file is read with row 1 as the header and all
\* later rows as the data; which of the two is applied follows from the binding of the
\* file (its filename and import type) and from nothing in the sheet.
C18_HeaderPolicy ==
  JustRead =>
    IF file_info.import_type = "single_sheet"
    THEN /\ file_info.filename = "BI At Scale Import.xlsx"
         /\ HeaderAtRow(workbook.single, SKIPROWS + 1)
    ELSE /\ file_info.filename = "BI Dimensions.xlsx"
         /\ HeaderAtRow(workbook.sheets[sheet_idx], 1)

\* a sheet of the single-sheet file with 3 rows of metadata, the header and two rows
\* has been read
C18_Witness ==
  /\ JustRead
  /\ file_info.import_type = "single_sheet"
  /\ Len(workbook.single) = SKIPROWS + 3
  /\ Len(df.rows) = 2
  /\ df.columns # workbook.single[1].labels

\* ------------------------------------------------ claims on the statements
NoStatement == [text |-> << >>, params |-> << >>]

\* the statement the next cursor.execute of import_dataframe_to_db is called with
ExecutedSql ==
  CASE pc = "db_drop" -> DropSql(table_name)
    [] pc = "db_create" -> CreateSql(table_name, df.columns)
    [] pc = "db_insert" /\ row_idx \in DOMAIN df.rows ->
         InsertSql(table_name, CleanRow(df.rows[row_idx]))
    [] OTHER -> NoStatement

OnlyWordChars(s) == \A i \in DOMAIN s : s[i] \in WordChars

\* C20: in the text of every statement sent to the store, every piece that comes
\* from the workbook is a cleaned sheet name or a cleaned column label and consists
\* only of letters, digits and underscores; no piece is a row value; the values of a
\* row are the bound parameters of its INSERT, one for every %s of the text.
C20_OnlyIdentifiersInSql ==
  LET st == ExecutedSql
      fromBook == { k \in DOMAIN st.text : st.text[k].src \notin {"code", "config"} }
  IN /\ \A k \in fromBook :
          /\ st.text[k].src \in {"sheet", "column"}
          /\ OnlyWordChars(st.text[k].s)
     /\ (pc = "db_insert" /\ row_idx \in DOMAIN df.rows) =>
          /\ st.params = CleanRow(df.rows[row_idx])
          /\ Len(st.params) = Len(df.columns)
          /\ Cardinality({ k \in DOMAIN st.text :
                             st.text[k].src = "code" /\ st.text[k].s = "%s" })
               = Len(st.params)
     /\ pc \in {"db_drop", "db_create"} => st.params = << >>

\* a row of the sheet named x'; is about to be inserted: the sheet name has been
\* through the cleaning and the row holds a value
C20_Witness ==
  /\ pc = "db_insert" /\ row_idx = 1
  /\ workbook.known /\ table_name.fanout
  /\ workbook.names[sheet_idx] = QuoteLabel
  /\ table_name.sheet = <<"x", "_", "_">>
  /\ \E j \in DOMAIN df.rows[1] : df.rows[1][j] = Val(1)
  /\ \E k \in DOMAIN ExecutedSql.text : ExecutedSql.text[k].src = "sheet"

\* ------------------------------------------------- claims on the retrieval
\* the step of the loop of line 363 that calls download_file
Fetched == pc = "run_loop" /\ log' # log

\* the events of the import of file f: they stand between its "processing" and the
\* "processing" of the next file
EventsOf(f) ==
  { i \in DOMAIN log :
      /\ \E p \in LoggedAt("processing") : p < i /\ log[p][2] = f
      /\ \A p \in LoggedAt("processing") : log[p][2] > f => i < p }

\* C21: a retrieval that ends in any other way than with the saved file (metadata
\* request not 200, no download URL, content request not 200, exception) is a failed
\* download of the file: the loop goes on with the next file without calling the
\* import, the file is not counted, and no connection is opened and nothing in the
\* store, committed or not, is changed by the step; a file whose download failed has
\* no other outcome and no event of an import, and the run that holds it returns False.
C21_FetchFailureSkipsImport ==
  /\ [][Fetched =>
          IF fetch' = "ok"
          THEN pc' = "import_file" /\ file_idx' = file_idx
          ELSE /\ fetch' \in FetchOutcomes
               /\ pc' = "run_loop" /\ file_idx' = file_idx + 1
               /\ log' = log \o << <<"processing", file_idx>>,
                                   <<"download_failed", file_idx>> >>
               /\ success_count' = success_count
               /\ conn' = conn /\ txn' = txn /\ committed' = committed
               /\ leaked' = leaked]_vars
  /\ [](\A f \in LoggedNumbers("download_failed") :
          /\ ~Logged("file_ok", f) /\ ~Logged("file_failed", f)
          /\ \A i \in EventsOf(f) : log[i] = <<"download_failed", f>>
          /\ success_count <= NumFiles - Cardinality(LoggedNumbers("download_failed"))
          /\ RunEnded => result = "False")
  /\ [][(committed' # committed \/ conn' = "open") => fetch = "ok" /\ fetch' = "ok"]_vars

\* the content request for file 1 was not answered with 200; the loop is at file 2
\* and nothing was stored
C21_Witness ==
  /\ pc = "run_loop" /\ file_idx = 2
  /\ fetch = "content_status"
  /\ Logged("download_failed", 1)
  /\ committed = EmptyStore /\ conn = "closed"

\* ------------------------------------------------ claims on the worked example
ExampleTable(sheet) == [base |-> "dimensions", sheet |-> sheet, fanout |-> TRUE]

ColumnNames(t) == [j \in DOMAIN t.cols |-> t.cols[j].name]

\* C22: after a successful import of a sheet its table holds one row for every data
\* row of the sheet, in the order of the sheet, none dropped and none twice; once the
\* sheet Region of the example is reported imported, the table dimensions_region is
\* committed with the columns region_name, col_2024_target, import_timestamp and 2
\* rows; no table dimensions_empty exists at any time, committed or not.
C22_OneRowPerDataRow ==
  /\ JustLoaded =>
       /\ Len(LoadedRows) = Len(SourceSheet) - 1
       /\ \A i \in DOMAIN LoadedRows : \A j \in DOMAIN SourceSheet[i + 1].cells :
            LoadedRows[i][j] = CleanRow(SourceSheet[i + 1].cells)[j]
  /\ Logged("sheet_ok", 1) =>
       \E t \in committed :
         /\ t.name = ExampleTable(<<"r","e","g","i","o","n">>)
         /\ ColumnNames(t) =
              << <<"r","e","g","i","o","n","_","n","a","m","e">>,
                 <<"c","o","l","_","2","0","2","4","_","t","a","r","g","e","t">>,
                 TS_COL >>
         /\ Len(t.rows) = 2
  /\ \A t \in committed \cup txn : t.name.sheet # <<"e","m","p","t","y">>

\* the import of the example has returned: Region and Product are imported, Empty
\* was skipped, two tables are committed
C22_Witness ==
  /\ pc = "file_return" /\ file_ret
  /\ Logged("sheet_ok", 1) /\ Logged("sheet_empty", 2) /\ Logged("sheet_ok", 3)
  /\ Cardinality(committed) = 2
  /\ \E t \in committed : t.name = ExampleTable(<<"p","r","o","d","u","c","t">>)

\* ------------------------------------------- claims on the unreadable file
\* the step in which the importer finds that the file cannot be parsed: pd.ExcelFile
\* (fan-out) or pd.read_excel (single sheet) raises
UnreadableStep ==
  \/ pc = "multi_open" /\ pc' = "file_return"
  \/ pc = "single_read" /\ pc' = "file_return" /\ log' = log

\* the importer has been called and has not yet passed the parsing of the file
BeforeParse == pc \in {"import_file", "multi_open", "single_read"}

\* C23: when the file cannot be parsed, in either mode, the import returns False; from
\* the call of the import to that return no connection is open and no step changes
\* the store, so no table of the first run is dropped, created or written; a file
\* whose import returned False is reported failed and not counted, and the loop goes
\* on to the next file, which is fetched like any other.
C23_UnreadableFails ==
  /\ [](BeforeParse => conn = "closed" /\ txn = EmptyStore)
  /\ [][BeforeParse => committed' = committed /\ txn' = txn /\ conn' = conn]_vars
  /\ [][UnreadableStep => ~file_ret' /\ file_idx' = file_idx]_vars
  /\ [][(pc = "file_return" /\ ~file_ret /\ pc' = "run_loop") =>
          /\ log'[Len(log) + 1] = <<"file_failed", file_idx>>
          /\ success_count' = success_count
          /\ file_idx' = file_idx + 1
          /\ committed' = committed]_vars
  /\ [][(pc = "run_loop" /\ file_idx <= NumFiles /\ log' # log) =>
          log'[Len(log) + 1] = <<"processing", file_idx>>]_vars

\* in the second run the multi-sheet file could not be opened: the tables of the
\* first run are still committed, and the loop went on to the single-sheet file
C23_Witness ==
  /\ runs = 2 /\ pc = "import_file" /\ file_idx = 2
  /\ log[Len(log) - 1] = <<"file_failed", 1>>
  /\ log[Len(log) - 2] = <<"processing", 1>>
  /\ \E t \in committed : t.name.base = target_files[1].table_name /\ Len(t.rows) > 0
  /\ committed = prev

\* ------------------------------------------------ claims on the failed import
FailedImport == pc = "db_return" /\ ~db_ret

\* C24: while import_dataframe_to_db runs, the committed store changes in no step but
\* the commit that ends a successful call; a call that leaves any statement before
\* the commit (connect, DROP, CREATE, an INSERT) with an exception returns False and
\* has committed nothing; so after a failed import in the second run the table the
\* first run left under the destination name is still committed, with the rows of
\* that load.
C24_FailedImportCommitsNothing ==
  /\ [][(InDb /\ ~(pc = "db_commit" /\ db_ret')) => committed' = committed]_vars
  /\ [][(pc \in {"db_connect", "db_prepare", "db_drop", "db_create", "db_insert"}
           /\ pc' = "db_return")
          => ~db_ret' /\ committed' = committed]_vars
  /\ [](FailedImport => txn = EmptyStore)
  /\ []((runs = 2 /\ FailedImport /\ (table_name.fanout => sheet_idx = 1)) =>
          \A t \in prev : t.name = table_name => t \in committed)

\* in the second run the first INSERT of a sheet failed, after DROP TABLE and CREATE
\* TABLE were executed; the table of the first run is committed with its rows
C24_Witness ==
  /\ runs = 2 /\ FailedImport
  /\ row_idx = 1 /\ TS_COL \in Range(df.columns)
  /\ TableExists(prev, table_name)
  /\ TableExists(committed, table_name)
  /\ TableOf(committed, table_name) = TableOf(prev, table_name)
  /\ Len(TableOf(committed, table_name).rows) > 0

\* ------------------------------------------- claims on the timestamp column
\* the frame of a sheet of the known files is prepared: columns cleaned, time set
Prepared == workbook.known /\ pc = "db_drop"

\* C25: the prepared frame of a sheet with n columns has n + 1 columns, the last of
\* them import_timestamp, and in its first n columns every row still holds the value
\* of the sheet, never the load time.
C25_TimestampAppended ==
  Prepared =>
    LET n == Len(SourceFrame.columns)
    IN  /\ Len(df.columns) = n + 1
        /\ df.columns[n + 1] = TS_COL
        /\ \A i \in DOMAIN df.rows : \A j \in 1..n :
             df.rows[i][j] = ReplaceMissingCell(SourceFrame.rows[i][j])

\* ------------------------------------------- claims on the tables of a workbook
\* C26: the sheets of the workbook being imported derive pairwise distinct table
\* names, and when the fan-out import returns the number of committed tables of the
\* file equals the number of sheets counted as imported.
C26_OneTablePerSheet ==
  InFanOut =>
    /\ \A i, j \in DOMAIN sheet_names :
         i # j => SheetTableName(file_info, sheet_names[i])
                    # SheetTableName(file_info, sheet_names[j])
    /\ FanOutReturned => Cardinality(FanOutTables) = sheet_success

\* ------------------------------------------------ claims on the empty skip
\* the step that finds a sheet (fan-out) or the file (single sheet) empty
EmptySkipStep ==
  \/ /\ pc = "multi_loop"
     /\ log' = log \o << <<"sheet", sheet_idx>>, <<"sheet_empty", sheet_idx>> >>
  \/ /\ pc = "single_read"
     /\ log' = Append(log, <<"file_empty", file_idx>>)

\* where in the log the output of the current run starts
RunStart == IF runs = 1 THEN 0 ELSE RunMark

\* the current run has reported sheet n of the multi-sheet file, the single-sheet
\* file, as empty
SkippedSheet(n) == \E i \in DOMAIN log : i > RunStart /\ log[i] = <<"sheet_empty", n>>
SkippedFile(f) == \E i \in DOMAIN log : i > RunStart /\ log[i] = <<"file_empty", f>>

\* C27: the step that skips an empty sheet or an empty file opens no connection and
\* changes neither the committed store nor a transaction; in the second run, from the
\* skip to the end of the run, the table the first run left for that sheet or file is
\* committed as the first run left it, with its rows.
C27_EmptySkipKeepsTable ==
  /\ [][EmptySkipStep =>
          /\ committed' = committed /\ txn' = txn
          /\ conn' = conn /\ conn = "closed"
          /\ leaked' = leaked]_vars
  /\ [](runs = 2 =>
          /\ \A n \in DOMAIN workbook.names :
               SkippedSheet(n) =>
                 \A t \in prev :
                   t.name = SheetTableName(target_files[1], workbook.names[n])
                     => t \in committed
          /\ \A f \in 1..NumFiles :
               SkippedFile(f) =>
                 \A t \in prev : t.name = FileTableName(target_files[f]) => t \in committed)

\* the second run has ended; it skipped the second sheet and the single-sheet file as
\* empty, and the tables the first run loaded for them are committed with their rows
C27_Witness ==
  /\ runs = 2 /\ pc = "exit"
  /\ SkippedSheet(2) /\ SkippedFile(2)
  /\ \E t \in committed :
       /\ t.name = SheetTableName(target_files[1], workbook.names[2])
       /\ t \in prev /\ Len(t.rows) = 2
  /\ \E t \in committed :
       /\ t.name = FileTableName(target_files[2])
       /\ t \in prev /\ Len(t.rows) = 1

\* ------------------------------------------------ claims on the connection
\* the connections to the store that are open: the one of the running import and
\* those a failed import left behind
OpenConnections == leaked + (IF conn = "open" THEN 1 ELSE 0)

\* C28: when import_dataframe_to_db returns, with True or with False, the connection
\* it opened is closed and none is left behind with its transaction; at no point of
\* the run is more than one connection open.
C28_ConnectionClosedAtReturn ==
  /\ pc = "db_return" => OpenConnections = 0
  /\ ~InDb => OpenConnections = 0
  /\ OpenConnections <= 1

\* ---------------------------------------------- claims on the temporary file
\* the step of the loop of line 363 that follows the import of a downloaded file
AfterImport == pc = "file_return" /\ pc' = "run_loop"

\* C29: the temporary file of a download exists while the file is imported; the step
\* that follows the import, after an import that succeeded and after one that failed
\* alike, calls the removal before the loop fetches the next file, and the temporary
\* file is gone, one file less on disk, unless the removal itself failed, which then
\* is a warning; in both cases the file is logged and counted by what the import
\* returned; every fetch finds the removal of the file before it done, and the run
\* returns True exactly when every file was imported.
C29_TempFileRemoved ==
  /\ [](InFile => temp_files >= 1 /\ unlinked = "none")
  /\ [][AfterImport =>
          /\ \/ unlinked' = "removed" /\ temp_files' = temp_files - 1
             \/ unlinked' = "warning" /\ temp_files' = temp_files
          /\ log' = Append(log, << IF file_ret THEN "file_ok" ELSE "file_failed", file_idx >>)
          /\ success_count' = success_count + (IF file_ret THEN 1 ELSE 0)
          /\ file_idx' = file_idx + 1]_vars
  /\ [][(pc = "run_loop" /\ log' # log /\ file_idx > 1) =>
          (unlinked \in {"removed", "warning"}
             <=> log[Len(log)][1] \in {"file_ok", "file_failed"})]_vars
  /\ [][(unlinked' # unlinked /\ unlinked' # "none") => AfterImport]_vars
  /\ [](RunEnded => (result = "True" <=> \A f \in 1..NumFiles : Logged("file_ok", f)))

\* the import of file 1 failed and its temporary file was removed; the loop is about
\* to fetch file 2
C29_Witness ==
  /\ pc = "run_loop" /\ file_idx = 2
  /\ Logged("file_failed", 1)
  /\ unlinked = "removed" /\ temp_files = 0

\* --------------------------------------------------- claims on the setup
\* the step in which get_access_token or get_drive_id returns False
SetupFailedStep == pc \in {"start", "drive"} /\ pc' = "run_return"

\* C30: when the token or the drive id cannot be obtained the run returns False at
\* once; at that return and at the exit that follows no file was fetched or imported
\* (nothing is logged, no temporary file exists, no retrieval was made), no connection
\* is open and the store is untouched, and the process exits with 1; the loop over
\* the files and everything in it is reached only with both the token and the drive id.
C30_SetupFailureEndsRun ==
  /\ [][SetupFailedStep =>
          /\ result' = "False"
          /\ log' = log /\ temp_files' = temp_files /\ fetch' = fetch
          /\ committed' = committed /\ txn' = txn /\ conn' = conn]_vars
  /\ []((pc \in {"run_return", "exit"} /\ ~(access_token /\ drive_id)) =>
          /\ result = "False"
          /\ log = << >> /\ temp_files = 0 /\ fetch = "none" /\ unlinked = "none"
          /\ committed = EmptyStore /\ txn = EmptyStore /\ conn = "closed"
          /\ pc = "exit" => exit_code = 1)
  /\ []((pc = "run_loop" \/ InFile) => access_token /\ drive_id)
  /\ []((log # << >> \/ committed # EmptyStore \/ temp_files > 0 \/ fetch # "none")
          => (pc = "killed" \/ (access_token /\ drive_id)))

\* the token was obtained, the drive id was not: the process has exited with 1 and
\* nothing was fetched or stored
C30_Witness ==
  /\ pc = "exit" /\ exit_code = 1
  /\ access_token /\ ~drive_id
  /\ log = << >> /\ committed = EmptyStore /\ temp_files = 0

====
